---- MODULE Spec2Model ----
(***************************************************************************)
(* Kaali Teedi card game: Room / Game / Deck / Player state machine of     *)
(* src/src/kaali_teedi_gameplay.py, src/src/card_game.py and               *)
(* src/src/card_game_player.py, driven either by an arbitrary caller of    *)
(* the Room and Game methods (Spec) or by cli_demo of                      *)
(* src/src/kaali_teedi_main.py (SpecCLI).                                  *)
(***************************************************************************)
EXTENDS Integers, Sequences, FiniteSets

\* ------------------------------------------------------------------------
\* Bounds of the model
\* ------------------------------------------------------------------------
\* number of rounds played on one Game
MaxRounds == 2
\* number of distinct player ids the CLI user enters besides the host's
MaxCliJoins == 15
\* period of the model's pseudo-random generator
RngPeriod == 5
\* number of calls each concurrent caller makes
MaxThreadCalls == 3
\* number of snapshots the score file holds
MaxSnapshots == 3
\* number of rooms the caller constructs
MaxRooms == 2
\* number of players that join the room whose deck is drawn from
MaxDeckPlayers == 3
\* number of players that join the room whose rules are changed
MaxScorePlayers == 4

\* ------------------------------------------------------------------------
\* Program constants
\* ------------------------------------------------------------------------
MAX_PLAYERS == 15
DECK_SIZE == 52
SUITS == <<"Hearts", "Diamonds", "Clubs", "Spades">>
RANKS == <<"2", "3", "4", "5", "6", "7", "8", "9", "10", "J", "Q", "K", "A">>

VARIABLES
    max_players,    \* Room.max_players
    players,        \* Room.players: insertion-ordered dict, as the sequence of its values
    points_rules,   \* Room.points_rules
    game,           \* Room.game: index into games, 0 for None
    games,          \* every Game object constructed so far
    score,          \* Player.score of every Player object
    hand,           \* Player.hand of every Player object
    rng,            \* state of the generator behind the random module
    ret,            \* the last call and what it returned or raised
    pc,             \* position of cli_demo ("api" when the caller is not the CLI)
    rooms,          \* every Room object constructed so far: room_code and host_player_id
    store,          \* the file behind JSONScoreStorage: whether it exists, and its JSON text
    threads         \* the call each concurrent caller is in, its position and its locals

vars == <<max_players, players, points_rules, game, games, score, hand, rng, pc, ret,
          rooms, store, threads>>

\* ------------------------------------------------------------------------
\* Small helpers: Python built-ins used by the code
\* ------------------------------------------------------------------------
Min(a, b) == IF a <= b THEN a ELSE b
Max(a, b) == IF a >= b THEN a ELSE b
Abs(x) == IF x < 0 THEN -x ELSE x
Range(s) == {s[i] : i \in 1..Len(s)}

RECURSIVE SumSeq(_)
SumSeq(s) == IF s = <<>> THEN 0 ELSE s[1] + SumSeq(Tail(s))

\* a dict is a function on its set of keys
EmptyDict == [k \in {} |-> 0]
\* dict.get(key, default)
Get(d, key, default) == IF key \in DOMAIN d THEN d[key] ELSE default

\* ------------------------------------------------------------------------
\* Player objects (card_game_player.Player)
\* ------------------------------------------------------------------------
\* The Player objects the callers construct: object o > 0 is built with player
\* id o, object 0 is a second Player object built with player id 1.
Objects == 0..(MaxCliJoins + 1)
player_id(o) == IF o = 0 THEN 1 ELSE o
\* the display_name argument of Player(...): 0 stands for None / ""
DisplayNameArg(o) == IF o % 2 = 0 THEN 0 ELSE 100 + o
\* Player.__init__: self.display_name = display_name or player_id
display_name(o) == IF DisplayNameArg(o) = 0 THEN player_id(o) ELSE DisplayNameArg(o)

\* ------------------------------------------------------------------------
\* Card / Deck (card_game.py)
\* ------------------------------------------------------------------------
\* Card(rank, suit); n tells the Card objects of the copies of the deck apart
Card(n, rank, suit) == [n |-> n, rank |-> rank, suit |-> suit]
\* Card.__repr__
CardStr(c) == <<c.rank, " of ", c.suit>>

\* build variant: one copy of the 52 cards whatever num_decks is
BuildOneCopy(num_decks) ==
    LET per == Len(SUITS) * Len(RANKS)
        cards == [i \in 1..per |->
                    Card(1, RANKS[((i - 1) % Len(RANKS)) + 1], SUITS[((i - 1) \div Len(RANKS)) + 1])]
    IN SubSeq(cards, 1, per)

\* Deck._build: for each copy, for each suit, for each rank
Build(num_decks) ==
    LET per == Len(SUITS) * Len(RANKS)
        cards == [i \in 1..(num_decks * per) |->
                    Card(((i - 1) \div per) + 1,
                         RANKS[(((i - 1) % per) % Len(RANKS)) + 1],
                         SUITS[(((i - 1) % per) \div Len(RANKS)) + 1])]
    IN SubSeq(cards, 1, num_decks * per)

Reverse(s) == LET n == Len(s) IN SubSeq([i \in 1..n |-> s[n + 1 - i]], 1, n)
Rotate(s, r) == LET m == r % Len(s) IN SubSeq(s, m + 1, Len(s)) \o SubSeq(s, 1, m)

\* The random module: a deterministic generator with hidden state, seeded
\* from the environment.  r is its state, Seeds the states it can start in.
Seeds == {0, 2}
NextRng(r) == (r + 1) % RngPeriod
\* random.shuffle(cards) in generator state r
Shuffle(cards, r) ==
    IF cards = <<>> THEN cards
    ELSE IF r % 2 = 1 THEN Rotate(Reverse(cards), 7 * r + 3) ELSE Rotate(cards, 7 * r + 3)
\* random.choice(seq) in generator state r
Choice(seq, r) == seq[(r % Len(seq)) + 1]

\* Deck.__init__: num_decks = max(1, int(num_decks)), _build, shuffle
Deck(num_decks, r) == Shuffle(Build(Max(1, num_decks)), r)

\* draw variant: the cards are popped from the back
DrawFromBack(cards, n) ==
    LET m == Min(Max(n, 0), Len(cards))
    IN <<SubSeq(Reverse(cards), 1, m), SubSeq(cards, 1, Len(cards) - m)>>

\* Deck.draw(n): pops from the front while cards are left; <<drawn, rest>>
Draw(cards, n) ==
    LET m == Min(Max(n, 0), Len(cards))
    IN <<SubSeq(cards, 1, m), SubSeq(cards, m + 1, Len(cards))>>

\* Deck.remaining
Remaining(cards) == Len(cards)


\* ------------------------------------------------------------------------
\* Room (kaali_teedi_gameplay.Room)
\* ------------------------------------------------------------------------
\* the keys of Room.players
MemberIds(ps) == {player_id(ps[i]) : i \in 1..Len(ps)}

\* Room.__init__: self.max_players = min(max_players, self.MAX_PLAYERS)
RoomCapacity(arg) == Min(arg, MAX_PLAYERS)

Ret(op, arg, result, value) == [op |-> op, arg |-> arg, result |-> result, value |-> value]

\* add_player variant: no capacity test
AddPlayerOutcomeNoCap(ps, cap, o) ==
    IF player_id(o) \in MemberIds(ps) THEN "DuplicatePlayer" ELSE "ok"

\* add_player variant: no membership test
AddPlayerOutcomeNoDup(ps, cap, o) ==
    IF Len(ps) >= cap THEN "RoomFull" ELSE "ok"

\* Room.add_player: which branch the call takes
AddPlayerOutcome(ps, cap, o) ==
    IF Len(ps) >= cap THEN "RoomFull"
    ELSE IF player_id(o) \in MemberIds(ps) THEN "DuplicatePlayer"
    ELSE "ok"

\* Room.add_player: self.players[player.player_id] = player; a key that is
\* already in the dict keeps its position and gets the new Player
AddPlayerInsert(ps, o) ==
    IF player_id(o) \in MemberIds(ps)
    THEN [ps EXCEPT ![CHOOSE i \in 1..Len(ps) : player_id(ps[i]) = player_id(o)] = o]
    ELSE Append(ps, o)

\* Room.add_player
AddPlayerCall(o) ==
    LET r == AddPlayerOutcome(players, max_players, o)
    IN /\ players' = IF r = "ok" THEN AddPlayerInsert(players, o) ELSE players
       /\ ret' = Ret("add_player", o, r, <<>>)

\* removal variant: the last member takes the place of the one removed
WithoutSwapLast(ps, pid) ==
    LET i == CHOOSE j \in 1..Len(ps) : player_id(ps[j]) = pid
    IN IF i = Len(ps) THEN SubSeq(ps, 1, Len(ps) - 1)
       ELSE SubSeq([ps EXCEPT ![i] = ps[Len(ps)]], 1, Len(ps) - 1)

\* del self.players[player_id]
Without(ps, pid) == SelectSeq(ps, LAMBDA o : player_id(o) # pid)

\* Room.remove_player
RemovePlayerCall(pid) ==
    IF pid \in MemberIds(players)
    THEN /\ players' = Without(players, pid)
         /\ ret' = Ret("remove_player", pid, "true", <<>>)
    ELSE /\ ret' = Ret("remove_player", pid, "false", <<>>)
         /\ UNCHANGED players

\* Room.list_players
list_players == players

\* Room.set_points_rules
SetPointsRulesCall(rules) ==
    /\ points_rules' = rules
    /\ ret' = Ret("set_points_rules", 0, "ok", <<>>)

\* ------------------------------------------------------------------------
\* Game (kaali_teedi_gameplay.Game)
\* ------------------------------------------------------------------------
\* Game.__init__
NewGame(deck_count, rules, ps, r) ==
    [ deck_count    |-> Max(1, deck_count),
      deck          |-> Deck(Max(1, deck_count), r),
      points_rules  |-> IF DOMAIN rules # {} THEN rules
                        ELSE [k \in {"points_per_remaining_card"} |-> 1],
      round_number  |-> 0,
      finished      |-> FALSE,
      round_history |-> <<>>,
      players       |-> ps ]

\* start_game variant: one member is enough
StartGameOutcomeLt1(g, gs, ps) ==
    IF g # 0 /\ ~gs[g].finished THEN "GameInProgress"
    ELSE IF Len(ps) < 1 THEN "InsufficientPlayers"
    ELSE "ok"

\* start_game variant: the member count is tested before the bound Game
StartGameOutcomeSwapped(g, gs, ps) ==
    IF Len(ps) < 2 THEN "InsufficientPlayers"
    ELSE IF g # 0 /\ ~gs[g].finished THEN "GameInProgress"
    ELSE "ok"

\* Room.start_game: which branch the call takes
StartGameOutcome(g, gs, ps) ==
    IF g # 0 /\ ~gs[g].finished THEN "GameInProgress"
    ELSE IF Len(ps) < 2 THEN "InsufficientPlayers"
    ELSE "ok"

\* Room.start_game
StartGameCall(deck_count, op) ==
    LET r == StartGameOutcome(game, games, players)
    IN /\ IF r = "ok"
          THEN /\ games' = Append(games, NewGame(deck_count, points_rules, players, rng))
               /\ game' = Len(games) + 1
               /\ rng' = NextRng(rng)
          ELSE UNCHANGED <<game, games, rng>>
       /\ ret' = Ret(op, deck_count, r, <<>>)

\* Game._deal_all_cards_equally: for p in self.players: p.take_cards(self.deck.draw(cards_each))
RECURSIVE DealLoop(_, _, _, _, _)
DealLoop(deck, hnd, ps, i, cards_each) ==
    IF i > Len(ps) THEN [deck |-> deck, hand |-> hnd]
    ELSE LET d == Draw(deck, cards_each)
         IN DealLoop(d[2], [hnd EXCEPT ![ps[i]] = @ \o d[1]], ps, i + 1, cards_each)

\* dealing variant: the quotient is rounded up
CardsEachCeil(deck, ps) ==
    IF Len(ps) # 0 THEN (Remaining(deck) + Len(ps) - 1) \div Len(ps) ELSE 0

\* Game._deal_all_cards_equally: cards_each = self.deck.remaining() // n_players if n_players else 0
CardsEach(deck, ps) == IF Len(ps) # 0 THEN Remaining(deck) \div Len(ps) ELSE 0

\* Game._deal_all_cards_equally
DealAllCardsEqually(deck, hnd, ps) == DealLoop(deck, hnd, ps, 1, CardsEach(deck, ps))

\* play_card variant: the card taken in last is played first
PlayCardFromEnd(h) == <<h[Len(h)], SubSeq(h, 1, Len(h) - 1)>>

\* Player.play_card: <<card, rest of hand>> (the callers only use it on a non-empty hand)
PlayCard(h) == <<Head(h), Tail(h)>>

\* Game.play_round: one pass of the turn loop over the players, turn_index
\* running from a multiple of len(players) to the next: every visited player
\* with a non-empty hand plays one card
RECURSIVE DrainPass(_, _, _, _)
DrainPass(hnd, ps, i, play_sequence) ==
    IF i > Len(ps) THEN [hand |-> hnd, play_sequence |-> play_sequence]
    ELSE LET current_player == ps[i]
         IN IF hnd[current_player] # <<>>
            THEN LET pl == PlayCard(hnd[current_player])
                 IN DrainPass([hnd EXCEPT ![current_player] = pl[2]], ps, i + 1,
                              Append(play_sequence, <<player_id(current_player), CardStr(pl[1])>>))
            ELSE DrainPass(hnd, ps, i + 1, play_sequence)

\* Game.play_round: the turn loop, while any(p.hand for p in self.players).
\* turn_index starts at 0, so the loop is a sequence of whole passes; the
\* visits of a pass that come after the last card was played append nothing.
RECURSIVE DrainLoop(_, _, _)
DrainLoop(hnd, ps, play_sequence) ==
    IF \E i \in 1..Len(ps) : hnd[ps[i]] # <<>>
    THEN LET pass == DrainPass(hnd, ps, 1, play_sequence)
         IN DrainLoop(pass.hand, ps, pass.play_sequence)
    ELSE [hand |-> hnd, play_sequence |-> play_sequence]

\* equal_cards variant: one deck of 52 is assumed whatever deck_count is
EqualCardsOneDeck(G) == IF Len(G.players) # 0 THEN DECK_SIZE \div Len(G.players) ELSE 0

\* Game.play_round: equal_cards = (self.deck_count * 52) // len(self.players)
EqualCards(G) == IF Len(G.players) # 0 THEN (G.deck_count * DECK_SIZE) \div Len(G.players) ELSE 0

\* penalty variant: the room's current rules are read, not the Game's
PenaltyFromRoomRules(G) == EqualCards(G) * Get(points_rules, "points_per_remaining_card", 1)

\* Game.play_round: penalty = original_cards_dealt[p] * points_rules.get("points_per_remaining_card", 1)
Penalty(G) == EqualCards(G) * Get(G.points_rules, "points_per_remaining_card", 1)

\* Game.play_round: scoreboard_delta after the penalty loop
PenaltyDelta(G) == [pid \in MemberIds(G.players) |-> -Penalty(G)]

\* bonus variant: no bonus unless one is configured
WinnerBonusDefaultZero(G) == Get(G.points_rules, "winner_bonus", 0)

\* bonus variant: the default is the sum of the other players' penalties
WinnerBonusOfOthers(G) ==
    Get(G.points_rules, "winner_bonus", (Len(G.players) - 1) * Penalty(G))

\* Game.play_round: winner_bonus = points_rules.get("winner_bonus", sum(abs(v) for v in delta.values()))
WinnerBonus(G) ==
    LET d == PenaltyDelta(G)
        ids == SubSeq([i \in 1..Len(G.players) |-> player_id(G.players[i])], 1, Len(G.players))
    IN Get(G.points_rules, "winner_bonus", SumSeq([i \in 1..Len(ids) |-> Abs(d[ids[i]])]))

\* delta variant: the winner is not charged the penalty
RoundDeltaWinnerUncharged(G, winner) ==
    [pid \in MemberIds(G.players) |->
        IF pid = player_id(winner)
        THEN Get(G.points_rules, "winner_bonus", Len(G.players) * Penalty(G))
        ELSE -Penalty(G)]

\* Game.play_round: scoreboard_delta once the winner got the bonus
RoundDelta(G, winner) ==
    [pid \in MemberIds(G.players) |->
        PenaltyDelta(G)[pid] + (IF pid = player_id(winner) THEN WinnerBonus(G) ELSE 0)]

\* scoring variant: the room's current members are scored, not the snapshot
ScoresAfterRoundOfMembers(sc, G, winner) ==
    [o \in Objects |->
        IF o \in Range(players)
        THEN sc[o] - Penalty(G)
                + (IF o = winner THEN Get(G.points_rules, "winner_bonus", Len(G.players) * Penalty(G))
                   ELSE 0)
        ELSE sc[o]]

\* scoring variant: the bonus goes into the delta only, not into the winner's score
ScoresAfterRoundNoBonus(sc, G, winner) ==
    [o \in Objects |->
        IF o \in Range(G.players) THEN sc[o] + PenaltyDelta(G)[player_id(o)] ELSE sc[o]]

\* Game.play_round: p.score += scoreboard_delta[p.player_id]; winner.score += winner_bonus
ScoresAfterRound(sc, G, winner) ==
    [o \in Objects |->
        IF o \in Range(G.players)
        THEN sc[o] + PenaltyDelta(G)[player_id(o)] + (IF o = winner THEN WinnerBonus(G) ELSE 0)
        ELSE sc[o]]

\* round_result variant: "round" is the counter as it was before the increment
RoundResultOldNumber(rn, play_sequence, G, winner, sc) ==
    [ round              |-> rn - 1,
      play_sequence      |-> play_sequence,
      delta              |-> RoundDelta(G, winner),
      scores_after_round |-> [pid \in MemberIds(G.players) |->
                                 sc[CHOOSE o \in Range(G.players) : player_id(o) = pid]],
      winner             |-> player_id(winner) ]

\* Game.play_round: the round_result dict
RoundResult(rn, play_sequence, G, winner, sc) ==
    [ round              |-> rn,
      play_sequence      |-> play_sequence,
      delta              |-> RoundDelta(G, winner),
      scores_after_round |-> [pid \in MemberIds(G.players) |->
                                 sc[CHOOSE o \in Range(G.players) : player_id(o) = pid]],
      winner             |-> player_id(winner) ]

\* rebuild variant: the deck the last round left is shuffled and dealt again
FreshDeckCarryOver(G, r) == Shuffle(G.deck, NextRng(r))

\* Game.play_round: self.deck = Deck(num_decks=self.deck_count); self.deck.shuffle()
FreshDeck(G, r) == Shuffle(Deck(G.deck_count, r), NextRng(r))

\* Game.play_round: for p in self.players: p.reset_for_round()
ResetForRound(hnd, ps) == [o \in Objects |-> IF o \in Range(ps) THEN <<>> ELSE hnd[o]]

\* play_round variant: the Game is marked finished when the deck it leaves
\* cannot deal another card to every player
PlayRoundCallFinishes(g) ==
    LET G == games[g]
        rn == G.round_number + 1
        dealt == DealAllCardsEqually(FreshDeck(G, rng), ResetForRound(hand, G.players), G.players)
        drained == DrainLoop(dealt.hand, G.players, <<>>)
        winner == Choice(G.players, NextRng(NextRng(rng)))
        sc == ScoresAfterRound(score, G, winner)
        res == RoundResult(rn, drained.play_sequence, G, winner, sc)
    IN /\ games' = [games EXCEPT ![g] = [@ EXCEPT !.round_number = rn,
                                                  !.deck = dealt.deck,
                                                  !.finished = Remaining(dealt.deck) < Len(G.players),
                                                  !.round_history = Append(@, res)]]
       /\ hand' = drained.hand
       /\ score' = sc
       /\ rng' = NextRng(NextRng(NextRng(rng)))
       /\ ret' = Ret("play_round", g, "ok", <<>>)

\* Game.play_round
PlayRoundCall(g) ==
    LET G == games[g]
        rn == G.round_number + 1
        dealt == DealAllCardsEqually(FreshDeck(G, rng), ResetForRound(hand, G.players), G.players)
        drained == DrainLoop(dealt.hand, G.players, <<>>)
        winner == Choice(G.players, NextRng(NextRng(rng)))
        sc == ScoresAfterRound(score, G, winner)
        res == RoundResult(rn, drained.play_sequence, G, winner, sc)
    IN /\ games' = [games EXCEPT ![g] = [@ EXCEPT !.round_number = rn,
                                                  !.deck = dealt.deck,
                                                  !.round_history = Append(@, res)]]
       /\ hand' = drained.hand
       /\ score' = sc
       /\ rng' = NextRng(NextRng(NextRng(rng)))
       /\ ret' = Ret("play_round", g, "ok", <<>>)

\* sort variant: x goes in front of the entries whose key equals its own
InsertDescBeforeEqual(sorted, x) ==
    LET n == Cardinality({i \in 1..Len(sorted) : sorted[i][3] > x[3]})
    IN SubSeq(sorted, 1, n) \o <<x>> \o SubSeq(sorted, n + 1, Len(sorted))

\* sorted(..., key=lambda x: x[2], reverse=True): x goes behind every entry whose key is >= its own
InsertDesc(sorted, x) ==
    LET n == Cardinality({i \in 1..Len(sorted) : sorted[i][3] >= x[3]})
    IN SubSeq(sorted, 1, n) \o <<x>> \o SubSeq(sorted, n + 1, Len(sorted))

RECURSIVE SortedDesc(_, _)
SortedDesc(done, rest) ==
    IF rest = <<>> THEN done ELSE SortedDesc(InsertDesc(done, Head(rest)), Tail(rest))

\* Game.get_scoreboard
Scoreboard(G, sc) ==
    SortedDesc(<<>>, SubSeq([i \in 1..Len(G.players) |->
                               <<player_id(G.players[i]), display_name(G.players[i]), sc[G.players[i]]>>],
                            1, Len(G.players)))

GetScoreboardCall(g) == ret' = Ret("get_scoreboard", g, "ok", Scoreboard(games[g], score))

\* is_game_over variant: a deck with exactly one card per player counts as used up
GameOverAtEqual(G) == Remaining(G.deck) <= Len(G.players)

\* is_game_over variant: only an empty deck counts as used up
GameOverOnEmptyDeck(G) == Remaining(G.deck) < 1

\* Game.is_game_over
GameOver(G) == Remaining(G.deck) < Len(G.players)

IsGameOverCall(g) ==
    ret' = Ret("is_game_over", g, IF GameOver(games[g]) THEN "true" ELSE "false", <<>>)

\* cli_demo, choice 'r': for p in game.players: p.score = 0; game = room.start_game(deck_count=1)
RestartCall(g) ==
    /\ score' = [o \in Objects |-> IF o \in Range(games[g].players) THEN 0 ELSE score[o]]
    /\ StartGameCall(1, "restart")

\* Room.__init__
NewRoom(max_players_arg) ==
    /\ max_players = RoomCapacity(max_players_arg)
    /\ players = <<>>
    /\ game = 0
    /\ points_rules = EmptyDict

\* ------------------------------------------------------------------------
\* Room codes (card_game.gen_room_code, Room.__init__)
\* ------------------------------------------------------------------------
\* gen_room_code: chars = string.ascii_uppercase + string.digits; two of the 36
CodeChars == <<"A", "7">>

\* gen_room_code: length: int = 6
CODE_LENGTH == 6

\* gen_room_code: ''.join(random.choice(chars) for _ in range(length)), rs the draws
GenRoomCode(rs) == SubSeq([i \in 1..CODE_LENGTH |-> Choice(CodeChars, rs[i])], 1, CODE_LENGTH)

\* every sequence of draws gen_room_code can make
CodeDraws == [1..CODE_LENGTH -> 0..(Len(CodeChars) - 1)]

\* the draws gen_room_code makes from generator state r
DrawsFrom(r) == [i \in 1..CODE_LENGTH |-> r + i]

\* Room.__init__: self.room_code = room_code or card_game.gen_room_code();
\* self.host_player_id = host_player_id. None and "" are <<>>.
RoomObject(host_player_id, room_code_arg, rs) ==
    [ room_code      |-> IF room_code_arg # <<>> THEN room_code_arg ELSE GenRoomCode(rs),
      host_player_id |-> host_player_id ]

\* ------------------------------------------------------------------------
\* Score storage (card_game_storage.JSONScoreStorage, MySQLScoreStorage)
\* ------------------------------------------------------------------------
\* A Python dict is the sequence of its <<key, value>> items in insertion order.
\* dict.get(key, default)
DictGet(d, key, default) ==
    IF \E i \in 1..Len(d) : d[i][1] = key
    THEN d[CHOOSE i \in 1..Len(d) : d[i][1] = key][2]
    ELSE default

\* d[key] = value: an existing key keeps its position
DictSet(d, key, value) ==
    IF \E i \in 1..Len(d) : d[i][1] = key
    THEN [d EXCEPT ![CHOOSE i \in 1..Len(d) : d[i][1] = key] = <<key, value>>]
    ELSE Append(d, <<key, value>>)

\* json.dump of a scoreboard dict {player_id: score}
JsonDumpScores(scoreboard) ==
    <<"object", SubSeq([i \in 1..Len(scoreboard) |->
                          <<<<"string", scoreboard[i][1]>>, <<"number", scoreboard[i][2]>>>>],
                       1, Len(scoreboard))>>

\* json.dump of a room's list [{"scores": scoreboard}, ...]
JsonDumpHistory(snapshots) ==
    <<"array", SubSeq([i \in 1..Len(snapshots) |->
                         <<"object", << <<<<"string", "scores">>,
                                          JsonDumpScores(DictGet(snapshots[i], "scores", <<>>))>> >> >>],
                      1, Len(snapshots))>>

\* json.dump(db, f): db maps room_code to the room's list
JsonDump(db) ==
    <<"object", SubSeq([i \in 1..Len(db) |->
                          <<<<"string", db[i][1]>>, JsonDumpHistory(db[i][2])>>],
                       1, Len(db))>>

\* json.load of a scoreboard object
JsonLoadScores(text) ==
    SubSeq([i \in 1..Len(text[2]) |-> <<text[2][i][1][2], text[2][i][2][2]>>], 1, Len(text[2]))

\* json.load of a room's array
JsonLoadHistory(text) ==
    SubSeq([i \in 1..Len(text[2]) |->
              << <<text[2][i][2][1][1][2], JsonLoadScores(text[2][i][2][1][2])>> >>],
           1, Len(text[2]))

\* json.load(f)
JsonLoad(text) ==
    SubSeq([i \in 1..Len(text[2]) |-> <<text[2][i][1][2], JsonLoadHistory(text[2][i][2])>>],
           1, Len(text[2]))

\* JSONScoreStorage.__init__ when the file does not exist: json.dump({}, f)
NewStoreFile == JsonDump(<<>>)

\* save variant: the room's list is replaced by the new snapshot
SaveGameScoresTextOverwrite(text, room_code, scoreboard) ==
    JsonDump(DictSet(JsonLoad(text), room_code, << << <<"scores", scoreboard>> >> >>))

\* MySQLScoreStorage.save_game_scores when mysql.connector could not be imported
MySqlSaveGameScoresCall(room_code, scoreboard) ==
    /\ ret' = Ret("mysql_save_game_scores", room_code, "RuntimeError", scoreboard)
    /\ UNCHANGED store

\* JSONScoreStorage.save_game_scores: the text written back to the file
SaveGameScoresText(text, room_code, scoreboard) ==
    LET db == JsonLoad(text)
        db1 == DictSet(db, room_code, DictGet(db, room_code, <<>>))
        db2 == DictSet(db1, room_code,
                       Append(DictGet(db1, room_code, <<>>), << <<"scores", scoreboard>> >>))
    IN JsonDump(db2)

\* JSONScoreStorage.load_room_scores
LoadRoomScores(text, room_code) == DictGet(JsonLoad(text), room_code, <<>>)

\* JSONScoreStorage.save_game_scores as a call: the file is rewritten unless
\* opening it raises
SaveGameScoresCall(room_code, scoreboard, outcome) ==
    /\ store' = IF outcome = "ok" THEN SaveGameScoresText(store, room_code, scoreboard) ELSE store
    /\ ret' = Ret("save_game_scores", room_code, outcome, scoreboard)

\* JSONScoreStorage.load_room_scores as a call
LoadRoomScoresCall(room_code) ==
    ret' = Ret("load_room_scores", room_code, "ok", LoadRoomScores(store, room_code))

\* cli_demo: scoreboard_dict = {pid: score for pid, _, score in game.get_scoreboard()}
ScoreboardDict(board) == SubSeq([i \in 1..Len(board) |-> <<board[i][1], board[i][3]>>], 1, Len(board))

\* no concurrent callers
NoThreads == <<>>

\* ------------------------------------------------------------------------
\* Spec: one room, any caller of the Room and Game methods
\* ------------------------------------------------------------------------
\* the Player objects the caller passes to add_player
ApiObjects == {0, 1, 2}
\* the max_players argument the caller constructs Room(...) with
MaxPlayersArgs == {2}
\* the dicts the caller passes to set_points_rules
RuleChoices == { [k \in {"winner_bonus"} |-> 5] }
\* the deck_count arguments the caller passes to start_game
DeckCountArgs == {0, 1, 2}

Init ==
    /\ \E a \in MaxPlayersArgs : NewRoom(a)
    /\ games = <<>>
    /\ score = [o \in Objects |-> 0]
    /\ hand = [o \in Objects |-> <<>>]
    /\ rng \in Seeds
    /\ rooms = <<RoomObject(1, <<>>, DrawsFrom(rng))>>
    /\ store = NewStoreFile
    /\ threads = NoThreads
    /\ ret = Ret("Room", 0, "ok", <<>>)
    /\ pc = "api"

AddPlayer(o) ==
    /\ pc = "api"
    /\ AddPlayerCall(o)
    /\ UNCHANGED <<rooms, store, threads, max_players, points_rules, game, games, score, hand, rng, pc>>

RemovePlayer(pid) ==
    /\ pc = "api"
    /\ RemovePlayerCall(pid)
    /\ UNCHANGED <<rooms, store, threads, max_players, points_rules, game, games, score, hand, rng, pc>>

SetPointsRules(rules) ==
    /\ pc = "api"
    /\ SetPointsRulesCall(rules)
    /\ UNCHANGED <<rooms, store, threads, max_players, players, game, games, score, hand, rng, pc>>

StartGame(deck_count) ==
    /\ pc = "api"
    /\ StartGameCall(deck_count, "start_game")
    /\ UNCHANGED <<rooms, store, threads, max_players, players, points_rules, score, hand, pc>>

PlayRound(g) ==
    /\ pc = "api"
    /\ games[g].round_number < MaxRounds
    /\ PlayRoundCall(g)
    /\ UNCHANGED <<rooms, store, threads, max_players, players, points_rules, game, pc>>

GetScoreboard(g) ==
    /\ pc = "api"
    /\ GetScoreboardCall(g)
    /\ UNCHANGED <<rooms, store, threads, max_players, players, points_rules, game, games, score, hand, rng, pc>>

IsGameOver(g) ==
    /\ pc = "api"
    /\ IsGameOverCall(g)
    /\ UNCHANGED <<rooms, store, threads, max_players, players, points_rules, game, games, score, hand, rng, pc>>

\* the caller restarts the way cli_demo does, after a round
Restart ==
    /\ pc = "api"
    /\ game # 0
    /\ games[game].round_number >= 1
    /\ RestartCall(game)
    /\ UNCHANGED <<rooms, store, threads, max_players, players, points_rules, hand, pc>>

Next ==
    \/ \E o \in ApiObjects : AddPlayer(o)
    \/ \E pid \in {player_id(o) : o \in ApiObjects} : RemovePlayer(pid)
    \/ \E r \in RuleChoices : SetPointsRules(r)
    \/ \E d \in DeckCountArgs : StartGame(d)
    \/ \E g \in 1..Len(games) : PlayRound(g)
    \/ \E g \in 1..Len(games) : GetScoreboard(g)
    \/ \E g \in 1..Len(games) : IsGameOver(g)
    \/ Restart

Spec == Init /\ [][Next]_vars


\* ------------------------------------------------------------------------
\* SpecCLI: cli_demo drives the room
\* ------------------------------------------------------------------------
\* the rules dict cli_demo builds from the two prompts (blank, or a number)
CliRuleInputs ==
    { EmptyDict,
      [k \in {"points_per_remaining_card"} |-> 2],
      [k \in {"winner_bonus"} |-> 5],
      [k \in {"points_per_remaining_card", "winner_bonus"} |->
          IF k = "winner_bonus" THEN 5 ELSE 2] }

\* cli_demo: room = Room(host_player_id=host_id)
InitCLI ==
    /\ NewRoom(MAX_PLAYERS)
    /\ games = <<>>
    /\ score = [o \in Objects |-> 0]
    /\ hand = [o \in Objects |-> <<>>]
    /\ rng \in Seeds
    /\ rooms = <<RoomObject(1, <<>>, DrawsFrom(rng))>>
    /\ store = NewStoreFile
    /\ threads = NoThreads
    /\ ret = Ret("Room", 0, "ok", <<>>)
    /\ pc = "host"

\* cli_demo: room.add_player(host_player)
CliHostJoins ==
    /\ pc = "host"
    /\ AddPlayerCall(1)
    /\ pc' = "join"
    /\ UNCHANGED <<rooms, store, threads, max_players, points_rules, game, games, score, hand, rng>>

\* the player ids the user can type: the host's again, or one not typed before
CliJoinInputs == {0} \cup {o \in Objects : o = Len(players) + 1}

\* cli_demo: "Add another player? y": p = Player(pid, pname); room.add_player(p)
CliJoin(o) ==
    /\ pc = "join"
    /\ AddPlayerCall(o)
    /\ UNCHANGED <<rooms, store, threads, max_players, points_rules, game, games, score, hand, rng, pc>>

\* cli_demo: room.set_points_rules(rules or {"points_per_remaining_card": 1})
CliSetRules(rules) ==
    /\ pc = "join"
    /\ SetPointsRulesCall(IF DOMAIN rules # {} THEN rules
                          ELSE [k \in {"points_per_remaining_card"} |-> 1])
    /\ pc' = "start"
    /\ UNCHANGED <<rooms, store, threads, max_players, players, game, games, score, hand, rng>>

\* cli_demo: game = room.start_game(deck_count=1); the RuntimeError is not caught
CliStartGame ==
    /\ pc = "start"
    /\ StartGameCall(1, "start_game")
    /\ pc' = IF StartGameOutcome(game, games, players) = "ok" THEN "play" ELSE "crashed"
    /\ UNCHANGED <<rooms, store, threads, max_players, players, points_rules, score, hand>>

\* cli_demo: round_res = game.play_round()
CliPlayRound ==
    /\ pc = "play"
    /\ games[game].round_number < MaxRounds
    /\ PlayRoundCall(game)
    /\ pc' = "board"
    /\ UNCHANGED <<rooms, store, threads, max_players, players, points_rules, game>>

\* cli_demo: print_scoreboard(game); scoreboard_dict = {... game.get_scoreboard()}
CliScoreboard ==
    /\ pc = "board"
    /\ GetScoreboardCall(game)
    /\ pc' = "save"
    /\ UNCHANGED <<rooms, store, threads, max_players, players, points_rules, game, games, score, hand, rng>>

\* what opening and writing the score file can do: succeed, or raise OSError
FileOutcomes == {"ok", "OSError"}

\* save variant: a failed save undoes the last round
CliSaveRollsBack(outcome) ==
    /\ pc = "save"
    /\ SaveGameScoresCall(rooms[1].room_code, ScoreboardDict(Scoreboard(games[game], score)), outcome)
    /\ pc' = IF outcome = "ok" THEN "choice" ELSE "crashed"
    /\ IF outcome = "ok" THEN UNCHANGED <<games, score>>
       ELSE LET G == games[game]
                res == G.round_history[Len(G.round_history)]
            IN /\ games' = [games EXCEPT ![game] =
                      [@ EXCEPT !.round_number = @ - 1,
                                !.round_history = SubSeq(@, 1, Len(@) - 1)]]
               /\ score' = [o \in Objects |->
                      IF o \in Range(G.players) THEN score[o] - res.delta[player_id(o)]
                      ELSE score[o]]
    /\ UNCHANGED <<rooms, threads, max_players, players, points_rules, game, hand, rng>>

\* cli_demo: storage.save_game_scores(room_code=room.room_code, scoreboard=scoreboard_dict);
\* an error raised by the save is not caught
CliSave(outcome) ==
    /\ pc = "save"
    /\ SaveGameScoresCall(rooms[1].room_code, ScoreboardDict(Scoreboard(games[game], score)), outcome)
    /\ pc' = IF outcome = "ok" THEN "choice" ELSE "crashed"
    /\ UNCHANGED <<rooms, threads, max_players, players, points_rules, game, games, score, hand, rng>>

\* cli_demo, choice 'r'; the RuntimeError of start_game is not caught
CliRestart ==
    /\ pc = "choice"
    /\ RestartCall(game)
    /\ pc' = IF StartGameOutcome(game, games, players) = "ok" THEN "play" ELSE "crashed"
    /\ UNCHANGED <<rooms, store, threads, max_players, players, points_rules, hand>>

\* cli_demo, choice 'c': if game.is_game_over(): break, else: continue
CliContinue ==
    /\ pc = "choice"
    /\ IsGameOverCall(game)
    /\ pc' = IF GameOver(games[game]) THEN "final" ELSE "play"
    /\ UNCHANGED <<rooms, store, threads, max_players, players, points_rules, game, games, score, hand, rng>>

\* cli_demo, any other choice: break
CliQuit ==
    /\ pc = "choice"
    /\ ret' = Ret("quit", 0, "ok", <<>>)
    /\ pc' = "final"
    /\ UNCHANGED <<rooms, store, threads, max_players, players, points_rules, game, games, score, hand, rng>>

\* cli_demo: print("Final scoreboard:"); print_scoreboard(game)
CliFinal ==
    /\ pc = "final"
    /\ GetScoreboardCall(game)
    /\ pc' = "done"
    /\ UNCHANGED <<rooms, store, threads, max_players, players, points_rules, game, games, score, hand, rng>>

NextCLI ==
    \/ CliHostJoins
    \/ \E o \in CliJoinInputs : CliJoin(o)
    \/ \E r \in CliRuleInputs : CliSetRules(r)
    \/ CliStartGame
    \/ CliPlayRound
    \/ CliScoreboard
    \/ \E outcome \in FileOutcomes : CliSave(outcome)
    \/ CliRestart
    \/ CliContinue
    \/ CliQuit
    \/ CliFinal

SpecCLI == InitCLI /\ [][NextCLI]_vars


\* ------------------------------------------------------------------------
\* SpecRoom: rooms of every requested size, filled and emptied by a caller
\* ------------------------------------------------------------------------
\* the max_players argument of Room(...): below, at and above the cap
RoomSizeArgs == {1, MAX_PLAYERS - 1, MAX_PLAYERS, MAX_PLAYERS + 1, MAX_PLAYERS + 2}

InitRoom ==
    /\ \E a \in RoomSizeArgs : NewRoom(a) /\ ret = Ret("Room", a, "ok", <<>>)
    /\ games = <<>>
    /\ score = [o \in Objects |-> 0]
    /\ hand = [o \in Objects |-> <<>>]
    /\ rng = 0
    /\ rooms = <<RoomObject(1, <<>>, DrawsFrom(rng))>>
    /\ store = NewStoreFile
    /\ threads = NoThreads
    /\ pc = "room"

\* the next unused Player object, the second object of id 1, or Player 2 again
RoomJoinInputs == {0, 2} \cup {o \in Objects : o = Len(players) + 1}

RoomAddPlayer(o) ==
    /\ pc = "room"
    /\ AddPlayerCall(o)
    /\ UNCHANGED <<rooms, store, threads, max_players, points_rules, game, games, score, hand, rng, pc>>

\* the id of the second or the last member, or an id that never joined
RoomLeaveInputs ==
    {0} \cup {player_id(players[i]) : i \in {2, Len(players)} \cap (1..Len(players))}

RoomRemovePlayer(pid) ==
    /\ pc = "room"
    /\ RemovePlayerCall(pid)
    /\ UNCHANGED <<rooms, store, threads, max_players, points_rules, game, games, score, hand, rng, pc>>

NextRoom ==
    \/ \E o \in RoomJoinInputs : RoomAddPlayer(o)
    \/ \E pid \in RoomLeaveInputs : RoomRemovePlayer(pid)

SpecRoom == InitRoom /\ [][NextRoom]_vars

\* ------------------------------------------------------------------------
\* SpecThreads: concurrent callers of one room. The code takes no lock, so a
\* call of one caller can run between two statements of another's.
\* ------------------------------------------------------------------------
Threads == {1, 2}

\* the max_players argument of Room(...)
ThreadRoomSizes == {1, 2}

\* a caller between two calls; calls counts the calls it has finished
Returned(calls, op, result, value) ==
    [ pc |-> "idle", op |-> op, arg |-> 0, result |-> result, value |-> value,
      play_sequence |-> <<>>, calls |-> calls ]

\* a caller inside a call, stopped before the statement pc names
Inside(calls, op, pc_, arg, play_sequence) ==
    [ pc |-> pc_, op |-> op, arg |-> arg, result |-> "none", value |-> 0,
      play_sequence |-> play_sequence, calls |-> calls ]

InitThreads ==
    /\ \E a \in ThreadRoomSizes : NewRoom(a)
    /\ games = <<>>
    /\ score = [o \in Objects |-> 0]
    /\ hand = [o \in Objects |-> <<>>]
    /\ rng = 0
    /\ rooms = <<RoomObject(1, <<>>, DrawsFrom(rng))>>
    /\ store = NewStoreFile
    /\ threads = [t \in Threads |-> Returned(0, "none", "none", 0)]
    /\ ret = Ret("Room", 0, "ok", <<>>)
    /\ pc = "threads"

CanCall(t) == pc = "threads" /\ threads[t].pc = "idle" /\ threads[t].calls < MaxThreadCalls

\* Room.add_player, the two tests (lines 41-46)
ThreadAddCheck(t, o) ==
    /\ CanCall(t)
    /\ LET r == AddPlayerOutcome(players, max_players, o)
       IN threads' = [threads EXCEPT ![t] =
              IF r = "ok" THEN Inside(@.calls, "add_player", "add_insert", o, <<>>)
              ELSE Returned(@.calls + 1, "add_player", r, o)]
    /\ UNCHANGED <<max_players, players, points_rules, game, games, score, hand, rng, ret, pc,
                   rooms, store>>

\* Room.add_player, the insertion (line 47)
ThreadAddInsert(t) ==
    /\ threads[t].pc = "add_insert"
    /\ players' = AddPlayerInsert(players, threads[t].arg)
    /\ threads' = [threads EXCEPT ![t] = Returned(@.calls + 1, "add_player", "ok", @.arg)]
    /\ UNCHANGED <<max_players, points_rules, game, games, score, hand, rng, ret, pc, rooms, store>>

\* Room.start_game, the two tests (lines 67-70)
ThreadStartCheck(t) ==
    /\ CanCall(t)
    /\ LET r == StartGameOutcome(game, games, players)
       IN threads' = [threads EXCEPT ![t] =
              IF r = "ok" THEN Inside(@.calls, "start_game", "start_create", 1, <<>>)
              ELSE Returned(@.calls + 1, "start_game", r, 0)]
    /\ UNCHANGED <<max_players, players, points_rules, game, games, score, hand, rng, ret, pc,
                   rooms, store>>

\* Room.start_game, self.game = Game(...) (line 71); value is the Game handed out
ThreadStartCreate(t) ==
    /\ threads[t].pc = "start_create"
    /\ games' = Append(games, NewGame(threads[t].arg, points_rules, players, rng))
    /\ game' = Len(games) + 1
    /\ rng' = NextRng(rng)
    /\ threads' = [threads EXCEPT ![t] = Returned(@.calls + 1, "start_game", "ok", Len(games) + 1)]
    /\ UNCHANGED <<max_players, players, points_rules, score, hand, ret, pc, rooms, store>>

\* Game.play_round, preparing the round (lines 105-112)
ThreadPlayPrepare(t, g) ==
    /\ CanCall(t)
    /\ games[g].round_number < MaxRounds
    /\ LET G == games[g]
           dealt == DealAllCardsEqually(FreshDeck(G, rng), ResetForRound(hand, G.players), G.players)
       IN /\ games' = [games EXCEPT ![g] = [@ EXCEPT !.round_number = @ + 1, !.deck = dealt.deck]]
          /\ hand' = dealt.hand
    /\ rng' = NextRng(NextRng(rng))
    /\ threads' = [threads EXCEPT ![t] = Inside(@.calls, "play_round", "play_drain", g, <<>>)]
    /\ UNCHANGED <<max_players, players, points_rules, game, score, ret, pc, rooms, store>>

\* Game.play_round, the turn loop (lines 114-125)
ThreadPlayDrain(t) ==
    /\ threads[t].pc = "play_drain"
    /\ LET drained == DrainLoop(hand, games[threads[t].arg].players, <<>>)
       IN /\ hand' = drained.hand
          /\ threads' = [threads EXCEPT ![t] =
                 Inside(@.calls, "play_round", "play_score", @.arg, drained.play_sequence)]
    /\ UNCHANGED <<max_players, players, points_rules, game, games, score, rng, ret, pc,
                   rooms, store>>

\* Game.play_round, scoring and the round_result (lines 131-162); value is its "round"
ThreadPlayScore(t) ==
    /\ threads[t].pc = "play_score"
    /\ LET g == threads[t].arg
           G == games[g]
           winner == Choice(G.players, rng)
           sc == ScoresAfterRound(score, G, winner)
           res == RoundResult(G.round_number, threads[t].play_sequence, G, winner, sc)
       IN /\ games' = [games EXCEPT ![g] = [@ EXCEPT !.round_history = Append(@, res)]]
          /\ score' = sc
          /\ threads' = [threads EXCEPT ![t] =
                 Returned(@.calls + 1, "play_round", "ok", res.round)]
    /\ rng' = NextRng(rng)
    /\ UNCHANGED <<max_players, players, points_rules, game, hand, ret, pc, rooms, store>>

NextThreads ==
    \/ \E t \in Threads, o \in ApiObjects : ThreadAddCheck(t, o)
    \/ \E t \in Threads : ThreadAddInsert(t)
    \/ \E t \in Threads : ThreadStartCheck(t)
    \/ \E t \in Threads : ThreadStartCreate(t)
    \/ \E t \in Threads, g \in 1..Len(games) : ThreadPlayPrepare(t, g)
    \/ \E t \in Threads : ThreadPlayDrain(t)
    \/ \E t \in Threads : ThreadPlayScore(t)

SpecThreads == InitThreads /\ [][NextThreads]_vars

\* ------------------------------------------------------------------------
\* SpecStore: a caller of the score storage
\* ------------------------------------------------------------------------
\* the room codes the caller saves and loads under
StoreCodes == {GenRoomCode([i \in 1..CODE_LENGTH |-> 0]), GenRoomCode([i \in 1..CODE_LENGTH |-> 1])}

\* the scoreboard dicts the caller saves
StoreScoreboards == { <<>>, << <<1, 39>>, <<2, -13>> >>, << <<2, 5>>, <<1, -13>> >> }

\* the number of snapshots in the file
RECURSIVE SnapshotCount(_)
SnapshotCount(db) == IF db = <<>> THEN 0 ELSE Len(Head(db)[2]) + SnapshotCount(Tail(db))

\* JSONScoreStorage(): the file does not exist yet
InitStore ==
    /\ NewRoom(MAX_PLAYERS)
    /\ games = <<>>
    /\ score = [o \in Objects |-> 0]
    /\ hand = [o \in Objects |-> <<>>]
    /\ rng = 0
    /\ rooms = <<>>
    /\ store = NewStoreFile
    /\ threads = NoThreads
    /\ ret = Ret("JSONScoreStorage", <<>>, "ok", <<>>)
    /\ pc = "store"

StoreSave(room_code, scoreboard, outcome) ==
    /\ pc = "store"
    /\ SnapshotCount(JsonLoad(store)) < MaxSnapshots
    /\ SaveGameScoresCall(room_code, scoreboard, outcome)
    /\ UNCHANGED <<max_players, players, points_rules, game, games, score, hand, rng, pc,
                   rooms, threads>>

StoreLoad(room_code) ==
    /\ pc = "store"
    /\ LoadRoomScoresCall(room_code)
    /\ UNCHANGED <<max_players, players, points_rules, game, games, score, hand, rng, pc,
                   rooms, store, threads>>

StoreMySqlSave(room_code, scoreboard) ==
    /\ pc = "store"
    /\ MySqlSaveGameScoresCall(room_code, scoreboard)
    /\ UNCHANGED <<max_players, players, points_rules, game, games, score, hand, rng, pc,
                   rooms, threads>>

NextStore ==
    \/ \E c \in StoreCodes, sb \in StoreScoreboards, outcome \in FileOutcomes : StoreSave(c, sb, outcome)
    \/ \E c \in StoreCodes : StoreLoad(c)
    \/ \E c \in StoreCodes, sb \in StoreScoreboards : StoreMySqlSave(c, sb)

SpecStore == InitStore /\ [][NextStore]_vars

\* ------------------------------------------------------------------------
\* SpecRegistry: a caller that constructs rooms and keeps them
\* ------------------------------------------------------------------------
\* the room_code arguments the caller supplies
SuppliedCodes == {<<"K", "T", "0", "0", "0", "1">>, GenRoomCode([i \in 1..CODE_LENGTH |-> 0])}

InitRegistry ==
    /\ NewRoom(MAX_PLAYERS)
    /\ games = <<>>
    /\ score = [o \in Objects |-> 0]
    /\ hand = [o \in Objects |-> <<>>]
    /\ rng = 0
    /\ rooms = <<>>
    /\ store = NewStoreFile
    /\ threads = NoThreads
    /\ ret = Ret("none", <<>>, "ok", <<>>)
    /\ pc = "registry"

\* Room(host_player_id): the code is generated; any draws can come up
CreateRoomGenerated(host_player_id, rs) ==
    /\ pc = "registry"
    /\ Len(rooms) < MaxRooms
    /\ rooms' = Append(rooms, RoomObject(host_player_id, <<>>, rs))
    /\ ret' = Ret("Room", <<>>, "ok", rooms'[Len(rooms')].room_code)
    /\ UNCHANGED <<max_players, players, points_rules, game, games, score, hand, rng, pc,
                   store, threads>>

\* Room(host_player_id, room_code=...)
CreateRoomWithCode(host_player_id, room_code) ==
    /\ pc = "registry"
    /\ Len(rooms) < MaxRooms
    /\ rooms' = Append(rooms, RoomObject(host_player_id, room_code, DrawsFrom(rng)))
    /\ ret' = Ret("Room", room_code, "ok", rooms'[Len(rooms')].room_code)
    /\ UNCHANGED <<max_players, players, points_rules, game, games, score, hand, rng, pc,
                   store, threads>>

NextRegistry ==
    \/ \E rs \in CodeDraws : CreateRoomGenerated(1, rs)
    \/ \E c \in SuppliedCodes : CreateRoomWithCode(1, c)

SpecRegistry == InitRegistry /\ [][NextRegistry]_vars

\* ------------------------------------------------------------------------
\* SpecDeck: a caller that also draws from the Game's deck
\* ------------------------------------------------------------------------
\* the n arguments of game.deck.draw(n)
DrawArgs == {0, 1, 3, 50}

\* game.deck.draw(n): value is the list returned
DrawCall(g, n) ==
    LET d == Draw(games[g].deck, n)
    IN /\ games' = [games EXCEPT ![g] = [@ EXCEPT !.deck = d[2]]]
       /\ ret' = Ret("draw", n, "ok", d[1])

InitDeck ==
    /\ NewRoom(MAX_PLAYERS)
    /\ games = <<>>
    /\ score = [o \in Objects |-> 0]
    /\ hand = [o \in Objects |-> <<>>]
    /\ rng = 0
    /\ rooms = <<RoomObject(1, <<>>, DrawsFrom(rng))>>
    /\ store = NewStoreFile
    /\ threads = NoThreads
    /\ ret = Ret("Room", 0, "ok", <<>>)
    /\ pc = "deck"

\* the next unused Player object, while there is one
DeckJoinInputs == {o \in 1..MaxDeckPlayers : o = Len(players) + 1}

DeckAddPlayer(o) ==
    /\ pc = "deck"
    /\ AddPlayerCall(o)
    /\ UNCHANGED <<max_players, points_rules, game, games, score, hand, rng, pc,
                   rooms, store, threads>>

DeckStartGame(deck_count) ==
    /\ pc = "deck"
    /\ StartGameCall(deck_count, "start_game")
    /\ UNCHANGED <<max_players, players, points_rules, score, hand, pc, rooms, store, threads>>

DeckDraw(n) ==
    /\ pc = "deck"
    /\ game # 0
    /\ DrawCall(game, n)
    /\ UNCHANGED <<max_players, players, points_rules, game, score, hand, rng, pc,
                   rooms, store, threads>>

DeckPlayRound ==
    /\ pc = "deck"
    /\ game # 0
    /\ games[game].round_number < MaxRounds
    /\ PlayRoundCall(game)
    /\ UNCHANGED <<max_players, players, points_rules, game, pc, rooms, store, threads>>

DeckIsGameOver ==
    /\ pc = "deck"
    /\ game # 0
    /\ IsGameOverCall(game)
    /\ UNCHANGED <<max_players, players, points_rules, game, games, score, hand, rng, pc,
                   rooms, store, threads>>

NextDeck ==
    \/ \E o \in DeckJoinInputs : DeckAddPlayer(o)
    \/ \E d \in DeckCountArgs : DeckStartGame(d)
    \/ \E n \in DrawArgs : DeckDraw(n)
    \/ DeckPlayRound
    \/ DeckIsGameOver

SpecDeck == InitDeck /\ [][NextDeck]_vars

\* ------------------------------------------------------------------------
\* SpecRound: play_round statement by statement, one caller
\* ------------------------------------------------------------------------
\* the caller outside play_round
NotInRound == [pc |-> "idle", turn_index |-> 0, play_sequence |-> <<>>]

\* the caller inside the turn loop of play_round, with the locals of the call
InRound(turn_index, play_sequence) ==
    [pc |-> "turn", turn_index |-> turn_index, play_sequence |-> play_sequence]

\* while any(p.hand for p in self.players)
AnyHand(hnd, ps) == \E i \in 1..Len(ps) : hnd[ps[i]] # <<>>

\* loop body variant: turn_index is not incremented
TurnStepSameIndex(hnd, ps, turn_index, play_sequence) ==
    LET current_player == ps[(turn_index % Len(ps)) + 1]
    IN IF hnd[current_player] # <<>>
       THEN LET pl == PlayCard(hnd[current_player])
            IN [ hand |-> [hnd EXCEPT ![current_player] = pl[2]],
                 play_sequence |-> Append(play_sequence,
                                          <<player_id(current_player), CardStr(pl[1])>>),
                 turn_index |-> turn_index ]
       ELSE [hand |-> hnd, play_sequence |-> play_sequence, turn_index |-> turn_index]

\* Game.play_round: the body of the turn loop, once
TurnStep(hnd, ps, turn_index, play_sequence) ==
    LET current_player == ps[(turn_index % Len(ps)) + 1]
    IN IF hnd[current_player] # <<>>
       THEN LET pl == PlayCard(hnd[current_player])
            IN [ hand |-> [hnd EXCEPT ![current_player] = pl[2]],
                 play_sequence |-> Append(play_sequence,
                                          <<player_id(current_player), CardStr(pl[1])>>),
                 turn_index |-> turn_index + 1 ]
       ELSE [hand |-> hnd, play_sequence |-> play_sequence, turn_index |-> turn_index + 1]

InitRound ==
    /\ NewRoom(MAX_PLAYERS)
    /\ games = <<>>
    /\ score = [o \in Objects |-> 0]
    /\ hand = [o \in Objects |-> <<>>]
    /\ rng = 0
    /\ rooms = <<RoomObject(1, <<>>, DrawsFrom(rng))>>
    /\ store = NewStoreFile
    /\ threads = <<NotInRound>>
    /\ ret = Ret("Room", 0, "ok", <<>>)
    /\ pc = "round"

\* the next unused Player object, until a Game is started
RoundJoinInputs == {o \in 1..MAX_PLAYERS : o = Len(players) + 1 /\ game = 0}

RoundAddPlayer(o) ==
    /\ pc = "round"
    /\ AddPlayerCall(o)
    /\ UNCHANGED <<max_players, points_rules, game, games, score, hand, rng, pc,
                   rooms, store, threads>>

RoundStartGame(deck_count) ==
    /\ pc = "round"
    /\ threads[1].pc = "idle"
    /\ StartGameCall(deck_count, "start_game")
    /\ UNCHANGED <<max_players, players, points_rules, score, hand, pc, rooms, store, threads>>

\* Game.play_round up to the turn loop (lines 106-118)
RoundBegin ==
    /\ pc = "round"
    /\ game # 0
    /\ threads[1].pc = "idle"
    /\ games[game].round_number < MaxRounds
    /\ LET G == games[game]
           dealt == DealAllCardsEqually(FreshDeck(G, rng), ResetForRound(hand, G.players), G.players)
       IN /\ games' = [games EXCEPT ![game] = [@ EXCEPT !.round_number = @ + 1, !.deck = dealt.deck]]
          /\ hand' = dealt.hand
    /\ rng' = NextRng(NextRng(rng))
    /\ threads' = <<InRound(0, <<>>)>>
    /\ UNCHANGED <<max_players, players, points_rules, game, score, ret, pc, rooms, store>>

\* Game.play_round: one iteration of the turn loop (lines 119-125)
RoundTurn ==
    /\ pc = "round"
    /\ threads[1].pc = "turn"
    /\ AnyHand(hand, games[game].players)
    /\ LET step == TurnStep(hand, games[game].players, threads[1].turn_index,
                            threads[1].play_sequence)
       IN /\ hand' = step.hand
          /\ threads' = <<InRound(step.turn_index, step.play_sequence)>>
    /\ UNCHANGED <<max_players, players, points_rules, game, games, score, rng, ret, pc,
                   rooms, store>>

\* Game.play_round once the loop condition is false (lines 127-162)
RoundFinish ==
    /\ pc = "round"
    /\ threads[1].pc = "turn"
    /\ ~AnyHand(hand, games[game].players)
    /\ LET G == games[game]
           winner == Choice(G.players, rng)
           sc == ScoresAfterRound(score, G, winner)
           res == RoundResult(G.round_number, threads[1].play_sequence, G, winner, sc)
       IN /\ games' = [games EXCEPT ![game] = [@ EXCEPT !.round_history = Append(@, res)]]
          /\ score' = sc
    /\ rng' = NextRng(rng)
    /\ threads' = <<NotInRound>>
    /\ ret' = Ret("play_round", game, "ok", <<>>)
    /\ UNCHANGED <<max_players, players, points_rules, game, hand, pc, rooms, store>>

NextRound ==
    \/ \E o \in RoundJoinInputs : RoundAddPlayer(o)
    \/ \E d \in DeckCountArgs : RoundStartGame(d)
    \/ RoundBegin
    \/ RoundTurn
    \/ RoundFinish

\* a call of play_round keeps running until it returns
SpecRound == InitRound /\ [][NextRound]_vars /\ WF_vars(RoundTurn) /\ WF_vars(RoundFinish)

\* ------------------------------------------------------------------------
\* SpecScore: a caller that changes the room's rules before and after start_game
\* ------------------------------------------------------------------------
\* the dicts the caller passes to set_points_rules
ScoreRuleChoices ==
    { EmptyDict,
      [k \in {"points_per_remaining_card"} |-> 0],
      [k \in {"points_per_remaining_card"} |-> 2],
      [k \in {"points_per_remaining_card"} |-> -1],
      [k \in {"winner_bonus"} |-> 5],
      [k \in {"points_per_remaining_card", "winner_bonus"} |->
          IF k = "winner_bonus" THEN 5 ELSE 2] }

InitScore ==
    /\ NewRoom(MAX_PLAYERS)
    /\ games = <<>>
    /\ score = [o \in Objects |-> 0]
    /\ hand = [o \in Objects |-> <<>>]
    /\ rng \in Seeds
    /\ rooms = <<RoomObject(1, <<>>, DrawsFrom(rng))>>
    /\ store = NewStoreFile
    /\ threads = NoThreads
    /\ ret = Ret("Room", 0, "ok", <<>>)
    /\ pc = "score"

\* the next unused Player object, until a Game is started
ScoreJoinInputs == {o \in 1..MaxScorePlayers : o = Len(players) + 1 /\ game = 0}

ScoreAddPlayer(o) ==
    /\ pc = "score"
    /\ AddPlayerCall(o)
    /\ UNCHANGED <<max_players, points_rules, game, games, score, hand, rng, pc,
                   rooms, store, threads>>

ScoreSetPointsRules(rules) ==
    /\ pc = "score"
    /\ SetPointsRulesCall(rules)
    /\ UNCHANGED <<max_players, players, game, games, score, hand, rng, pc,
                   rooms, store, threads>>

ScoreStartGame ==
    /\ pc = "score"
    /\ StartGameCall(1, "start_game")
    /\ UNCHANGED <<max_players, players, points_rules, score, hand, pc, rooms, store, threads>>

ScorePlayRound ==
    /\ pc = "score"
    /\ game # 0
    /\ games[game].round_number < MaxRounds
    /\ PlayRoundCall(game)
    /\ UNCHANGED <<max_players, players, points_rules, game, pc, rooms, store, threads>>

NextScore ==
    \/ \E o \in ScoreJoinInputs : ScoreAddPlayer(o)
    \/ \E r \in ScoreRuleChoices : ScoreSetPointsRules(r)
    \/ ScoreStartGame
    \/ ScorePlayRound

SpecScore == InitScore /\ [][NextScore]_vars

\* ------------------------------------------------------------------------
\* Room membership
\* ------------------------------------------------------------------------
StartOps == {"start_game", "restart"}

\* C1: the member count never exceeds the room's capacity, which is at most
\* MAX_PLAYERS; add_player on a room whose member count equals the capacity
\* fails with RoomFull and leaves the membership unchanged.
C1_CapacityRespected ==
    [][ /\ Len(players') <= max_players'
        /\ max_players' <= MAX_PLAYERS
        /\ (ret'.op = "add_player" /\ Len(players) = max_players)
              => (ret'.result = "RoomFull" /\ players' = players) ]_vars

\* the sixteenth join of a room that holds MAX_PLAYERS members was refused
C1_Witness ==
    /\ ret.op = "add_player"
    /\ ret.result = "RoomFull"
    /\ Len(players) = MAX_PLAYERS
    /\ max_players = MAX_PLAYERS

\* C2 as stated: add_player with the id of a member fails with DuplicatePlayer
\* in every room state and leaves the membership unchanged.
C2_AlwaysDuplicatePlayer ==
    [][ (ret'.op = "add_player" /\ player_id(ret'.arg) \in MemberIds(players))
           => (ret'.result = "DuplicatePlayer" /\ players' = players) ]_vars

\* C2 amended: add_player with the id of a member fails and leaves the
\* membership unchanged; the failure is DuplicatePlayer when the room is not
\* full and RoomFull when the member count equals the capacity.
C2_DuplicateRefused ==
    [][ (ret'.op = "add_player" /\ player_id(ret'.arg) \in MemberIds(players))
           => /\ players' = players
              /\ ret'.result = (IF Len(players) = max_players THEN "RoomFull"
                                ELSE "DuplicatePlayer") ]_vars

\* a second Player object with the id of member 1 was refused; object 1 stays
C2_Witness ==
    /\ ret.op = "add_player"
    /\ ret.arg = 0
    /\ ret.result = "DuplicatePlayer"
    /\ players = <<1>>

\* ------------------------------------------------------------------------
\* start_game
\* ------------------------------------------------------------------------
UnfinishedBound == game # 0 /\ ~games[game].finished

\* C3 as stated: start_game with fewer than 2 members fails with
\* InsufficientPlayers and binds no Game; with 2 or more members and no
\* unfinished Game bound it succeeds with a snapshot equal to the member list.
C3_InsufficientWheneverFew ==
    [][ ret'.op \in StartOps =>
          IF Len(players) < 2
          THEN ret'.result = "InsufficientPlayers" /\ game' = game /\ games' = games
          ELSE ~UnfinishedBound =>
                  /\ ret'.result = "ok"
                  /\ game' = Len(games) + 1
                  /\ games'[game'].players = players ]_vars

\* C3 amended: with fewer than 2 members and no unfinished Game bound,
\* start_game fails with InsufficientPlayers and binds no Game (with an
\* unfinished Game bound it fails with GameInProgress); with 2 or more members
\* and no unfinished Game bound it succeeds with a snapshot equal to the
\* member list at call time.
C3_StartGameOutcomes ==
    [][ (ret'.op \in StartOps /\ ~UnfinishedBound) =>
          IF Len(players) < 2
          THEN ret'.result = "InsufficientPlayers" /\ game' = game /\ games' = games
          ELSE /\ ret'.result = "ok"
               /\ game' = Len(games) + 1
               /\ Len(games') = Len(games) + 1
               /\ games'[game'].players = players ]_vars

\* a Game was started on members that joined in the order 2, then the second object of id 1
C3_Witness ==
    /\ ret.op = "start_game"
    /\ ret.result = "ok"
    /\ game = 1
    /\ games[1].players = <<2, 0>>
    /\ players = <<2, 0>>

\* C4: a room has at most one unfinished Game; start_game on a room whose
\* bound Game is unfinished fails with GameInProgress, also with fewer than 2
\* members, and leaves the bound Game, its round counter and its history unchanged.
C4_OneUnfinishedGame ==
    [][ /\ Cardinality({g \in 1..Len(games') : ~games'[g].finished}) <= 1
        /\ (ret'.op \in StartOps /\ UnfinishedBound)
              => (ret'.result = "GameInProgress" /\ game' = game /\ games' = games) ]_vars

\* start_game was refused on a room left with one member, after a round of the bound Game
C4_Witness ==
    /\ ret.op = "start_game"
    /\ ret.result = "GameInProgress"
    /\ Len(players) < 2
    /\ game = 1
    /\ games[1].round_number = 1

\* ------------------------------------------------------------------------
\* Restart and the snapshot
\* ------------------------------------------------------------------------
\* C5: after at least one round, resetting the snapshot players' scores and
\* calling room.start_game again (the 'restart' option) succeeds and binds a
\* new Game with round counter 0 and empty history; the previous Game is not
\* mutated.
C5_RestartSupersedes ==
    [][ (ret'.op = "restart" /\ game # 0 /\ games[game].round_number >= 1)
           => /\ ret'.result = "ok"
              /\ game' = Len(games) + 1
              /\ games'[game'].round_number = 0
              /\ games'[game'].round_history = <<>>
              /\ games'[game] = games[game] ]_vars

\* C6: add_player and remove_player leave the player list of every Game
\* unchanged, and a later play_round deals to and scores exactly the players of
\* the snapshot, in snapshot order.
C6_SnapshotFrozen ==
    [][ /\ \A g \in 1..Len(games) : games'[g].players = games[g].players
        /\ ret'.op = "play_round" =>
              LET G == games[ret'.arg]
                  k == Len(G.players)
                  res == games'[ret'.arg].round_history[Len(games'[ret'.arg].round_history)]
              IN /\ DOMAIN res.delta = MemberIds(G.players)
                 /\ \A i \in 1..Len(res.play_sequence) :
                       res.play_sequence[i][1] = player_id(G.players[((i - 1) % k) + 1])
                 /\ \A o \in Range(G.players) :
                       /\ score'[o] = score[o] + res.delta[player_id(o)]
                       /\ Cardinality({i \in 1..Len(res.play_sequence) :
                                          res.play_sequence[i][1] = player_id(o)})
                             = (G.deck_count * DECK_SIZE) \div k
                 /\ \A o \in Objects \ Range(G.players) :
                       score'[o] = score[o] /\ hand'[o] = hand[o] ]_vars

\* a round was played after both snapshot players left and a new Player joined:
\* the players that left were scored, the late joiner was not
C6_Witness ==
    /\ ret.op = "play_round"
    /\ game = 1
    /\ games[1].players = <<1, 2>>
    /\ players = <<0>>
    /\ score[1] # 0
    /\ score[2] # 0
    /\ score[0] = 0

\* ------------------------------------------------------------------------
\* Round scoring
\* ------------------------------------------------------------------------
\* the rounds recorded so far, as <<game index, round index>>
Rounds == {gr \in (1..Len(games)) \X (1..MaxRounds) : gr[2] <= Len(games[gr[1]].round_history)}

\* original_dealt of a Game: (deck_count * 52) // number of snapshot players
OriginalDealt(G) == (G.deck_count * DECK_SIZE) \div Len(G.players)

\* the penalty of a Game from its rules, points_per_remaining_card defaulting to 1
PenaltyOf(G) ==
    OriginalDealt(G) * (IF "points_per_remaining_card" \in DOMAIN G.points_rules
                        THEN G.points_rules["points_per_remaining_card"] ELSE 1)

\* the bonus of a Game from its rules: the configured one, or the sum of all penalties
BonusOf(G) ==
    IF "winner_bonus" \in DOMAIN G.points_rules THEN G.points_rules["winner_bonus"]
    ELSE Len(G.players) * PenaltyOf(G)

\* C7: in every recorded round the delta of the winner is winner_bonus - penalty
\* and the delta of every other snapshot player is -penalty, with
\* penalty = original_dealt * points_per_remaining_card.
C7_DeltaFormula ==
    \A gr \in Rounds :
        LET G == games[gr[1]]
            res == G.round_history[gr[2]]
        IN /\ res.winner \in MemberIds(G.players)
           /\ \A pid \in MemberIds(G.players) :
                 res.delta[pid] = IF pid = res.winner THEN BonusOf(G) - PenaltyOf(G)
                                  ELSE -PenaltyOf(G)

\* five players, 2 points per card, a bonus of 5: the fourth player won
C7_Witness ==
    /\ game = 1
    /\ Len(games[1].players) = 5
    /\ Get(games[1].points_rules, "points_per_remaining_card", 1) = 2
    /\ Get(games[1].points_rules, "winner_bonus", 0) = 5
    /\ Len(games[1].round_history) = 1
    /\ games[1].round_history[1].winner = 4
    /\ games[1].round_history[1].delta[4] = -15
    /\ games[1].round_history[1].delta[1] = -20

\* a Game of 1 deck and 4 players under the default rules
FourPlayerDefault(G) ==
    /\ G.deck_count = 1
    /\ Len(G.players) = 4
    /\ "winner_bonus" \notin DOMAIN G.points_rules
    /\ Get(G.points_rules, "points_per_remaining_card", 1) = 1

\* the number of plays of player pid in a play sequence
PlaysOf(play_sequence, pid) ==
    Cardinality({i \in 1..Len(play_sequence) : play_sequence[i][1] = pid})

\* every round of G dealt 13 cards to each player, recorded 52 plays and gave
\* each non-winner -13 and the winner the given delta
FourPlayerRounds(G, winner_delta) ==
    \A r \in 1..Len(G.round_history) :
        LET res == G.round_history[r]
        IN /\ Len(res.play_sequence) = 52
           /\ \A pid \in MemberIds(G.players) :
                 /\ PlaysOf(res.play_sequence, pid) = 13
                 /\ res.delta[pid] = IF pid = res.winner THEN winner_delta ELSE -13

\* C8 as stated: with 1 deck, 4 players and default rules every round deals
\* 13 cards to each player, records 52 plays, gives each non-winner -13 and
\* the winner +26.
C8_WinnerGets26 ==
    \A g \in 1..Len(games) : FourPlayerDefault(games[g]) => FourPlayerRounds(games[g], 26)

\* C8 amended: with 1 deck, 4 players and default rules every round deals 13
\* cards to each player, records 52 plays, gives each non-winner -13 and the
\* winner +39 (the default bonus is the sum of all four penalties, 52).
C8_WinnerGets39 ==
    \A g \in 1..Len(games) : FourPlayerDefault(games[g]) => FourPlayerRounds(games[g], 39)

\* four players, default rules, one round played: the fourth player won +39
C8_Witness ==
    /\ game = 1
    /\ FourPlayerDefault(games[1])
    /\ Len(games[1].round_history) = 1
    /\ games[1].round_history[1].winner = 4
    /\ games[1].round_history[1].delta[4] = 39
    /\ score[4] = 39
    /\ score[1] = -13

\* the number of entries of a sequence of card strings that equal str
CopiesIn(strs, str) == Cardinality({i \in 1..Len(strs) : strs[i] = str})

\* C9: with k snapshot players and D = deck_count * 52 cards, the play sequence
\* of every round has k * (D div k) entries; the D mod k remaining cards stay
\* in the deck and none of them is in the play sequence (each card string is
\* deck_count times in the play sequence and the deck together).
C9_PlaySequenceLength ==
    \A g \in 1..Len(games) :
        LET G == games[g]
            k == Len(G.players)
            D == G.deck_count * DECK_SIZE
        IN /\ \A r \in 1..Len(G.round_history) :
                 Len(G.round_history[r].play_sequence) = k * (D \div k)
           /\ G.round_number >= 1 =>
                 LET last == G.round_history[Len(G.round_history)].play_sequence
                 IN /\ Remaining(G.deck) = D % k
                    /\ \A c \in Range(Build(1)) :
                          CopiesIn([i \in 1..Len(last) |-> last[i][2]], CardStr(c))
                             + CopiesIn([i \in 1..Len(G.deck) |-> CardStr(G.deck[i])], CardStr(c))
                             = G.deck_count

\* 1 deck, 5 players: 50 plays, 10 by each player, 2 cards left in the deck
C9_Witness ==
    /\ game = 1
    /\ Len(games[1].players) = 5
    /\ games[1].deck_count = 1
    /\ Len(games[1].round_history) = 1
    /\ Len(games[1].round_history[1].play_sequence) = 50
    /\ PlaysOf(games[1].round_history[1].play_sequence, 5) = 10
    /\ Remaining(games[1].deck) = 2

\* ------------------------------------------------------------------------
\* Scoreboard
\* ------------------------------------------------------------------------
\* the position of player id pid in the snapshot of G
SnapshotIndex(G, pid) == CHOOSE i \in 1..Len(G.players) : player_id(G.players[i]) = pid

\* C10: get_scoreboard returns every snapshot player exactly once as
\* (player_id, display_name, score), in non-increasing score order, players of
\* equal score in snapshot order.
C10_ScoreboardSorted ==
    ret.op = "get_scoreboard" =>
        LET G == games[ret.arg]
            b == ret.value
        IN /\ Len(b) = Len(G.players)
           /\ \A i \in 1..Len(G.players) :
                 Cardinality({j \in 1..Len(b) :
                    b[j] = <<player_id(G.players[i]), display_name(G.players[i]),
                             score[G.players[i]]>>}) = 1
           /\ \A j \in 1..Len(b) : \A m \in 1..Len(b) :
                 j < m => /\ b[j][3] >= b[m][3]
                          /\ b[j][3] = b[m][3]
                                => SnapshotIndex(G, b[j][1]) < SnapshotIndex(G, b[m][1])

\* four players, the fourth won: it is listed first, the three others tie and
\* follow in join order
C10_Witness ==
    /\ ret.op = "get_scoreboard"
    /\ Len(ret.value) = 4
    /\ ret.value[1][1] = 4
    /\ ret.value[2][1] = 1
    /\ ret.value[3][1] = 2
    /\ ret.value[4][1] = 3
    /\ ret.value[2][3] = ret.value[4][3]
    /\ ret.value[1][3] > ret.value[2][3]

\* ------------------------------------------------------------------------
\* Concurrent callers
\* ------------------------------------------------------------------------
\* caller t executes the insertion of add_player in this step
Inserts(t) == threads[t].pc = "add_insert" /\ threads'[t].pc = "idle"

\* C11: interleaved add_player calls take effect as if serialized: the member
\* count never exceeds the capacity, and no call inserts an id that is a member
\* at the time of the insertion.
C11_AddPlayerSerialized ==
    [][ /\ Len(players') <= max_players'
        /\ \A t \in DOMAIN threads :
              Inserts(t) => player_id(threads[t].arg) \notin MemberIds(players) ]_vars

\* C12: of two interleaved start_game calls at most one succeeds: no two
\* distinct unfinished Games are handed out for the room.
C12_OneStartSucceeds ==
    \A t \in DOMAIN threads : \A u \in DOMAIN threads :
        ( /\ t # u
          /\ threads[t].op = "start_game" /\ threads[t].result = "ok"
          /\ threads[u].op = "start_game" /\ threads[u].result = "ok"
          /\ ~games[threads[t].value].finished
          /\ ~games[threads[u].value].finished )
        => threads[t].value = threads[u].value

\* the sum of the deltas of player pid over the first n rounds of G
RECURSIVE DeltaSum(_, _, _)
DeltaSum(G, pid, n) ==
    IF n = 0 THEN 0 ELSE DeltaSum(G, pid, n - 1) + G.round_history[n].delta[pid]

\* C13: concurrent play_round calls on a Game behave as rounds run one after
\* the other: the RoundResults carry the consecutive round numbers 1, 2, ...,
\* each has k * (D div k) plays, and each player's score is the sum of the
\* recorded deltas (one penalty per round plus the bonuses of the rounds won).
C13_PlayRoundSerialized ==
    \A g \in 1..Len(games) :
        LET G == games[g]
            k == Len(G.players)
            D == G.deck_count * DECK_SIZE
        IN /\ \A r \in 1..Len(G.round_history) :
                 /\ G.round_history[r].round = r
                 /\ Len(G.round_history[r].play_sequence) = k * (D \div k)
           /\ Len(games) = 1 =>
                 \A o \in Range(G.players) :
                    score[o] = DeltaSum(G, player_id(o), Len(G.round_history))

\* ------------------------------------------------------------------------
\* Score persistence
\* ------------------------------------------------------------------------
\* C14: the scores are saved after the round's mutation is applied, and a
\* failing save_game_scores does not roll the round back: the players' scores,
\* the round counter and the round history stay as play_round left them.
C14_SaveKeepsRound ==
    [][ ret'.op = "save_game_scores" =>
          LET G == games[game]
          IN /\ G.round_number >= 1
             /\ Len(G.round_history) = G.round_number
             /\ \A o \in Range(G.players) :
                   score[o] = G.round_history[G.round_number].scores_after_round[player_id(o)]
             /\ ret'.value = ScoreboardDict(Scoreboard(G, score))
             /\ games' = games /\ game' = game /\ score' = score /\ hand' = hand ]_vars

\* the save after the first round raised: the round is still recorded and scored
C14_Witness ==
    /\ ret.op = "save_game_scores"
    /\ ret.result = "OSError"
    /\ pc = "crashed"
    /\ games[game].round_number = 1
    /\ Len(games[game].round_history) = 1
    /\ score[1] = games[game].round_history[1].scores_after_round[1]
    /\ score[1] # 0
    /\ LoadRoomScores(store, rooms[1].room_code) = <<>>

\* the dict {"scores": scoreboard} a save appends
Snapshot(scoreboard) == << <<"scores", scoreboard>> >>

C16_RoomCodesUnique ==
    \A i \in 1..Len(rooms) : \A j \in 1..Len(rooms) :
        i # j => rooms[i].room_code # rooms[j].room_code

\* ------------------------------------------------------------------------
\* Deck
\* ------------------------------------------------------------------------
\* C17: is_game_over returns true exactly when the cards remaining in the
\* Game's deck at call time are fewer than the snapshot players, and it
\* changes no state.
C17_GameOverExact ==
    [][ ret'.op = "is_game_over" =>
          /\ (ret'.result = "true") <=>
                (Len(games[ret'.arg].deck) < Len(games[ret'.arg].players))
          /\ ret'.result \in {"true", "false"}
          /\ UNCHANGED <<max_players, players, points_rules, game, games, score, hand, rng,
                         rooms, store>> ]_vars

\* three snapshot players and three cards left after draws: the game is not over
C17_Witness ==
    /\ ret.op = "is_game_over"
    /\ ret.result = "false"
    /\ Len(games[ret.arg].players) = 3
    /\ Len(games[ret.arg].deck) = 3

\* ------------------------------------------------------------------------
\* Membership order
\* ------------------------------------------------------------------------
\* s without its i-th element
RemoveAt(s, i) == SubSeq(s, 1, i - 1) \o SubSeq(s, i + 1, Len(s))

\* C18: list_players returns the members in the order of their successful
\* add_player calls: a successful add puts the Player last, a failed add
\* changes nothing, and a removal takes the member out and keeps the order of
\* the others.
C18_JoinOrderKept ==
    [][ /\ ret'.op = "add_player" =>
              players' = IF ret'.result = "ok" THEN Append(players, ret'.arg) ELSE players
        /\ (ret'.op = "add_player" /\ ret'.result = "ok") =>
              player_id(ret'.arg) \notin MemberIds(players)
        /\ ret'.op = "remove_player" =>
              IF ret'.result = "true"
              THEN \E i \in 1..Len(players) :
                      /\ player_id(players[i]) = ret'.arg
                      /\ players' = RemoveAt(players, i)
              ELSE players' = players /\ ret'.arg \notin MemberIds(players) ]_vars

\* the second of four members left and joined again: it is listed last
C18_Witness ==
    /\ ret.op = "add_player"
    /\ ret.result = "ok"
    /\ list_players = <<1, 3, 4, 2>>

\* the number of cards of a deck with the given rank and suit
CopiesOf(cards, rank, suit) ==
    Cardinality({i \in 1..Len(cards) : cards[i].rank = rank /\ cards[i].suit = suit})

\* C19: a freshly built deck of n >= 1 decks has exactly 52n cards, each of the
\* 13 ranks x 4 suits exactly n times (start_game builds the Game's deck with
\* n = max(1, deck_count)).
C19_FreshDeckComplete ==
    [][ (ret'.op = "start_game" /\ ret'.result = "ok") =>
          LET fresh == games'[game'].deck
              n == IF ret'.arg >= 1 THEN ret'.arg ELSE 1
          IN /\ Len(fresh) = 52 * n
             /\ Cardinality(Range(RANKS)) = 13
             /\ Cardinality(Range(SUITS)) = 4
             /\ \A rank \in Range(RANKS) : \A suit \in Range(SUITS) :
                   CopiesOf(fresh, rank, suit) = n ]_vars

\* a Game was started with two decks: 104 cards, none drawn yet
C19_Witness ==
    /\ ret.op = "start_game"
    /\ ret.result = "ok"
    /\ ret.arg = 2
    /\ Len(games[game].deck) = 104
    /\ CopiesOf(games[game].deck, "A", "Spades") = 2

\* C20: draw(k), k >= 0, removes exactly min(k, remaining) cards from the
\* front of the deck, returns them in their order without raising, leaves the
\* rest in order, and remaining() decreases by that amount.
C20_DrawFromFront ==
    [][ ret'.op = "draw" =>
          LET old == games[game].deck
              new == games'[game].deck
              k == ret'.arg
              m == IF k < Len(old) THEN k ELSE Len(old)
          IN /\ k >= 0
             /\ ret'.result = "ok"
             /\ Len(ret'.value) = m
             /\ \A i \in 1..m : ret'.value[i] = old[i]
             /\ Remaining(new) = Remaining(old) - m
             /\ \A j \in 1..Len(new) : new[j] = old[m + j] ]_vars

\* draw(50) on a deck of 2 cards returned the 2 cards and emptied the deck
C20_Witness ==
    /\ ret.op = "draw"
    /\ ret.arg = 50
    /\ Len(ret.value) = 2
    /\ games[game].round_number = 0
    /\ games[game].deck_count = 1
    /\ Remaining(games[game].deck) = 0

PlayedCopies(play_sequence, str) ==
    Cardinality({i \in 1..Len(play_sequence) : play_sequence[i][2] = str})

\* the number of Cards of a deck whose string is str
DeckCopies(cards, str) == Cardinality({i \in 1..Len(cards) : CardStr(cards[i]) = str})

\* C22: in every round, first or later, the deck holds exactly deck_count * 52
\* cards when dealing starts, whatever the deck held before the call: the
\* cards played and the cards left in the deck are together deck_count copies
\* of the 52 cards, and every round of a Game deals the same number of cards,
\* (deck_count * 52) div k, to each player.
C22_FullDeckEveryRound ==
    [][ ret'.op = "play_round" =>
          LET G == games'[game]
              k == Len(G.players)
              D == G.deck_count * DECK_SIZE
              res == G.round_history[Len(G.round_history)]
          IN /\ Len(res.play_sequence) + Len(G.deck) = D
             /\ \A c \in Range(Build(1)) :
                   PlayedCopies(res.play_sequence, CardStr(c)) + DeckCopies(G.deck, CardStr(c))
                      = G.deck_count
             /\ \A r \in 1..Len(G.round_history) : \A pid \in MemberIds(G.players) :
                   PlaysOf(G.round_history[r].play_sequence, pid) = D \div k ]_vars

\* three players, one deck, the second round: 17 cards each in both rounds,
\* one card left in the deck after each
C22_Witness ==
    /\ ret.op = "play_round"
    /\ Len(games[game].players) = 3
    /\ games[game].deck_count = 1
    /\ games[game].round_number = 2
    /\ PlaysOf(games[game].round_history[1].play_sequence, 3) = 17
    /\ PlaysOf(games[game].round_history[2].play_sequence, 3) = 17
    /\ Len(games[game].deck) = 1

\* C23: in the play sequence of every round the j-th play (from 0) is made by
\* snapshot player j mod k, every player plays one card per visit, and each
\* player's cards come in the order they were dealt: the i-th card dealt to the
\* m-th player, the ((m - 1) * cards_each + i)-th card of the shuffled deck, is
\* play number (i - 1) * k + m.
C23_RoundRobinFifo ==
    [][ ret'.op = "play_round" =>
          LET G == games[game]
              k == Len(G.players)
              cards_each == (G.deck_count * DECK_SIZE) \div k
              fresh == FreshDeck(G, rng)
              play_sequence == games'[game].round_history[Len(games'[game].round_history)].play_sequence
          IN /\ Len(play_sequence) = k * cards_each
             /\ \A j \in 0..(Len(play_sequence) - 1) :
                   LET m == (j % k) + 1
                       i == (j \div k) + 1
                   IN play_sequence[j + 1] =
                         <<player_id(G.players[m]), CardStr(fresh[(m - 1) * cards_each + i])>> ]_vars

\* three players, two decks: the second play is the 35th card of the deck, the
\* first card dealt to the second player; the fourth is the first player's second card
C23_Witness ==
    /\ ret.op = "play_round"
    /\ Len(games[game].players) = 3
    /\ games[game].deck_count = 2
    /\ games[game].round_number = 1
    /\ LET play_sequence == games[game].round_history[1].play_sequence
       IN /\ Len(play_sequence) = 102
          /\ play_sequence[1][1] = 1
          /\ play_sequence[2][1] = 2
          /\ play_sequence[3][1] = 3
          /\ play_sequence[4][1] = 1
          /\ play_sequence[2][2] # play_sequence[1][2]

\* the caller is inside the turn loop of play_round
InDrain == threads[1].pc = "turn"

\* play_round has returned and no other call was made since
RoundReturned == threads[1].pc = "idle" /\ ret.op = "play_round"

\* C24: for every Game of 2 to 15 snapshot players and deck_count >= 1 the
\* turn loop of play_round terminates, after at most k * cards_each
\* iterations, and when play_round returns every snapshot player's hand is
\* empty.
C24_DrainTerminates ==
    /\ InDrain ~> RoundReturned
    /\ [](InDrain =>
            threads[1].turn_index
               <= Len(games[game].players)
                    * ((games[game].deck_count * DECK_SIZE) \div Len(games[game].players)))
    /\ [](RoundReturned => \A o \in Range(games[game].players) : hand[o] = <<>>)

\* fifteen players, two decks: the round returned with 90 plays and empty hands
C24_Witness ==
    /\ RoundReturned
    /\ Len(games[game].players) = MAX_PLAYERS
    /\ games[game].deck_count = 2
    /\ Len(games[game].round_history[1].play_sequence) = 90
    /\ \A o \in Range(games[game].players) : hand[o] = <<>>

\* ------------------------------------------------------------------------
\* Round counter and history
\* ------------------------------------------------------------------------
\* C25: each play_round increments the round counter by exactly 1 and appends
\* exactly one RoundResult: between calls the history length equals the round
\* counter, the i-th entry carries round number i, and no call changes an
\* entry recorded earlier; the other calls change neither.
C25_OneResultPerRound ==
    [][ /\ \A g \in 1..Len(games') :
              /\ Len(games'[g].round_history) = games'[g].round_number
              /\ \A i \in 1..Len(games'[g].round_history) : games'[g].round_history[i].round = i
        /\ \A g \in 1..Len(games) :
              IF ret'.op = "play_round" /\ ret'.arg = g
              THEN /\ games'[g].round_number = games[g].round_number + 1
                   /\ Len(games'[g].round_history) = Len(games[g].round_history) + 1
                   /\ SubSeq(games'[g].round_history, 1, Len(games[g].round_history))
                         = games[g].round_history
              ELSE /\ games'[g].round_number = games[g].round_number
                   /\ games'[g].round_history = games[g].round_history ]_vars

\* the second round of a Game: two entries, numbered 1 and 2
C25_Witness ==
    /\ ret.op = "play_round"
    /\ games[ret.arg].round_number = 2
    /\ Len(games[ret.arg].round_history) = 2
    /\ games[ret.arg].round_history[1].round = 1
    /\ games[ret.arg].round_history[2].round = 2

\* C27: no call sets finished: after any sequence of play_round,
\* get_scoreboard, is_game_over, add_player, remove_player, set_points_rules
\* (and start_game) calls the finished flag of every Game is still the false
\* it got at creation.
C27_FinishedNeverSet ==
    \A g \in 1..Len(games) : games[g].finished = FALSE

\* a Game after two rounds, a removal and a change of the room's rules, asked
\* whether it is over: still unfinished
C27_Witness ==
    /\ ret.op = "is_game_over"
    /\ ret.result = "true"
    /\ games[ret.arg].round_number = 2
    /\ Len(players) < Len(games[ret.arg].players)
    /\ points_rules # EmptyDict
    /\ games[ret.arg].points_rules # points_rules
    /\ games[ret.arg].finished = FALSE

\* ------------------------------------------------------------------------
\* Cumulative scores
\* ------------------------------------------------------------------------
\* C26: for every round and every snapshot player p the cumulative score
\* snapshot of p in the RoundResult equals p's score before the round plus p's
\* recorded delta, and equals p's score as get_scoreboard shows it right after
\* the round; scores accumulate over the rounds and may be negative.
C26_ScoresAccumulate ==
    [][ /\ ret'.op = "play_round" =>
              LET G == games[ret'.arg]
                  res == games'[ret'.arg].round_history[Len(games'[ret'.arg].round_history)]
              IN /\ DOMAIN res.scores_after_round = MemberIds(G.players)
                 /\ \A o \in Range(G.players) :
                       /\ res.scores_after_round[player_id(o)] = score[o] + res.delta[player_id(o)]
                       /\ score'[o] = res.scores_after_round[player_id(o)]
        /\ (ret'.op = "get_scoreboard" /\ ret.op = "play_round" /\ ret.arg = ret'.arg) =>
              LET G == games[ret'.arg]
                  res == G.round_history[Len(G.round_history)]
              IN /\ Len(ret'.value) = Len(G.players)
                 /\ \A i \in 1..Len(ret'.value) :
                       ret'.value[i][3] = res.scores_after_round[ret'.value[i][1]] ]_vars

\* the scoreboard after the second round under the default rules: player 1
\* lost both rounds and stands at the sum of its two deltas, -52
C26_Witness ==
    /\ ret.op = "get_scoreboard"
    /\ games[ret.arg].players = <<1, 2>>
    /\ games[ret.arg].round_number = 2
    /\ games[ret.arg].deck_count = 1
    /\ games[ret.arg].round_history[1].delta[1] = -26
    /\ games[ret.arg].round_history[2].delta[1] = -26
    /\ games[ret.arg].round_history[2].scores_after_round[1] = -52
    /\ \E i \in 1..Len(ret.value) : ret.value[i][1] = 1 /\ ret.value[i][3] = -52

\* the sum of the recorded deltas of a RoundResult over the snapshot of G
SumDeltas(res, G) ==
    SumSeq(SubSeq([i \in 1..Len(G.players) |-> res.delta[player_id(G.players[i])]],
                  1, Len(G.players)))

\* the sum of the cumulative scores sc of the snapshot players of G
SumScores(sc, G) ==
    SumSeq(SubSeq([i \in 1..Len(G.players) |-> sc[G.players[i]]], 1, Len(G.players)))

\* G has no winner_bonus configured and a non-negative points_per_remaining_card
DefaultBonusRules(G) ==
    /\ "winner_bonus" \notin DOMAIN G.points_rules
    /\ Get(G.points_rules, "points_per_remaining_card", 1) >= 0

\* C28: under the default bonus rules and a non-negative
\* points_per_remaining_card the deltas of every round sum to zero over the
\* snapshot players, so the sum of their cumulative scores is after every
\* round what it was at game start.
C28_ZeroSum ==
    [][ ret'.op = "play_round" =>
          LET G == games[ret'.arg]
              res == games'[ret'.arg].round_history[Len(games'[ret'.arg].round_history)]
          IN DefaultBonusRules(G) =>
                /\ SumDeltas(res, G) = 0
                /\ SumScores(score', G) = SumScores(score, G)
                /\ SumScores(score', G) = 0 ]_vars

\* three players at 2 points per card, two rounds: the scores are not zero
\* and sum to zero
C28_Witness ==
    /\ ret.op = "play_round"
    /\ Len(games[game].players) = 3
    /\ games[game].points_rules = [k \in {"points_per_remaining_card"} |-> 2]
    /\ games[game].round_number = 2
    /\ games[game].round_history[2].delta[games[game].round_history[2].winner] = 68
    /\ \E o \in Range(games[game].players) : score[o] = -68
    /\ SumScores(score, games[game]) = 0

\* ------------------------------------------------------------------------
\* Rules of an in-flight Game
\* ------------------------------------------------------------------------
\* the penalty the rules dict gives for original_dealt cards
RulesPenalty(rules, original_dealt) ==
    original_dealt * (IF "points_per_remaining_card" \in DOMAIN rules
                      THEN rules["points_per_remaining_card"] ELSE 1)

\* the bonus the rules dict gives when each of k players has the penalty
RulesBonus(rules, k, penalty) ==
    IF "winner_bonus" \in DOMAIN rules THEN rules["winner_bonus"] ELSE k * Abs(penalty)

\* C30: a Game scores with the rules that were the room's when start_game was
\* called, points_per_remaining_card = 1 when they were empty: set_points_rules
\* changes the rules, the scores and the history of no Game, and every later
\* round takes its penalty and its winner bonus from the Game's rules, whatever
\* the room's rules are by then.
C30_RulesFixedAtStart ==
    [][ /\ (ret'.op = "start_game" /\ ret'.result = "ok") =>
              games'[game'].points_rules =
                 IF DOMAIN points_rules = {} THEN [k \in {"points_per_remaining_card"} |-> 1]
                 ELSE points_rules
        /\ ret'.op = "set_points_rules" => (games' = games /\ score' = score)
        /\ ret'.op = "play_round" =>
              LET G == games[ret'.arg]
                  res == games'[ret'.arg].round_history[Len(games'[ret'.arg].round_history)]
                  penalty == RulesPenalty(G.points_rules, (G.deck_count * DECK_SIZE) \div Len(G.players))
                  bonus == RulesBonus(G.points_rules, Len(G.players), penalty)
              IN /\ games'[ret'.arg].points_rules = G.points_rules
                 /\ \A pid \in MemberIds(G.players) :
                       res.delta[pid] = (IF pid = res.winner THEN bonus ELSE 0) - penalty ]_vars

\* a Game started under 2 points per card plays its second round after the
\* room's rules were set to a bonus of 5: penalty 34, winner delta 68
C30_Witness ==
    /\ ret.op = "play_round"
    /\ Len(games[game].players) = 3
    /\ games[game].points_rules = [k \in {"points_per_remaining_card"} |-> 2]
    /\ points_rules = [k \in {"winner_bonus"} |-> 5]
    /\ games[game].round_number = 2
    /\ \E pid \in MemberIds(games[game].players) :
          /\ pid # games[game].round_history[2].winner
          /\ games[game].round_history[2].delta[pid] = -34
    /\ games[game].round_history[2].delta[games[game].round_history[2].winner] = 68

\* ------------------------------------------------------------------------
\* Configured and actual deal size
\* ------------------------------------------------------------------------
\* C29: for every integer deck_count >= 1 and every snapshot of 2 to 15
\* players the original_dealt the penalty is computed from,
\* (deck_count * 52) div k, is the number of cards each player holds when
\* dealing ends and the number of cards each player plays in the round: the
\* penalty of a round is the number of cards actually played by a player times
\* points_per_remaining_card.
C29_DealtAsConfigured ==
    [][ /\ (threads[1].pc = "idle" /\ threads'[1].pc = "turn") =>
              \A o \in Range(games[game].players) :
                 Len(hand'[o]) = OriginalDealt(games'[game])
        /\ (threads[1].pc = "turn" /\ threads'[1].pc = "idle") =>
              LET G == games'[game]
                  res == G.round_history[Len(G.round_history)]
              IN \A pid \in MemberIds(G.players) :
                    /\ PlaysOf(res.play_sequence, pid) = OriginalDealt(G)
                    /\ pid # res.winner =>
                          res.delta[pid] =
                             -(PlaysOf(res.play_sequence, pid)
                                  * Get(G.points_rules, "points_per_remaining_card", 1)) ]_vars

\* seven players, two decks: 14 cards dealt to and played by each player, and
\* a penalty of 14 for a player that did not win
C29_Witness ==
    /\ RoundReturned
    /\ Len(games[game].players) = 7
    /\ games[game].deck_count = 2
    /\ games[game].round_number = 1
    /\ PlaysOf(games[game].round_history[1].play_sequence, 7) = 14
    /\ \E pid \in MemberIds(games[game].players) : games[game].round_history[1].delta[pid] = -14

====
